---- MODULE Spec2Model ----
(***************************************************************************)
(* Isometric (triangular-grid) coordinates: IsometricPoint and             *)
(* IsometricVector of mundimonium/layers/coordinates/isometric.py.         *)
(*                                                                         *)
(* Numbers.  The code computes on Python floats and only ever multiplies   *)
(* by 0.5, adds, subtracts and multiplies, all of which are exact on       *)
(* dyadic rationals.  A number x is held as the integer x * Unit, where    *)
(* Unit = 2^Prec leaves room for every halving MaxSteps operations can     *)
(* perform (at most two nested halvings per operation), so Half is exact.  *)
(***************************************************************************)
EXTENDS Integers, Sequences, FiniteSets, TLC

VARIABLES mesh, p, q, v, op, old, ret, steps

vars == <<mesh, p, q, v, op, old, ret, steps>>

MaxSteps == 2

Prec == 2 * MaxSteps + 1

Unit == 2 ^ Prec

Half(x) == x \div 2

Abs(x) == IF x < 0 THEN -x ELSE x

(***************************************************************************)
(* IsometricDirection                                                      *)
(***************************************************************************)
B == 0

S == 1

D == 2

IsometricDirection == {B, S, D}

rotated_cw_by_index(self, index) == (self + index) % Cardinality(IsometricDirection)

rotated_ccw_by_index(self, index) == (self - index) % Cardinality(IsometricDirection)

(***************************************************************************)
(* IsometricGrid: the constants of a face are supplied by the embedding    *)
(* mesh.  mesh.grid[f] is the grid of face f; mesh.edge[f] is what         *)
(* f.direction_away_from_face(other face) answers; mesh.adjacent is what   *)
(* is_adjacent_to_face answers for the two distinct faces.                 *)
(***************************************************************************)
Faces == {"A", "B"}

OtherFace(f) == IF f = "A" THEN "B" ELSE "A"

Grids ==
    { [apothem |-> a * Unit, altitude |-> 3 * a * Unit, side_length |-> sl * Unit] :
        a \in {1, 2}, sl \in {4} }

side_length(grid) == mesh.grid[grid].side_length

apothem(grid) == mesh.grid[grid].apothem

altitude(grid) == mesh.grid[grid].altitude

is_adjacent_to_face(grid, other) == grid # other /\ mesh.adjacent

direction_away_from_face(grid, other) == mesh.edge[grid]

(***************************************************************************)
(* Optional[Number] arguments: None is <<>>, a supplied x is <<x>>.        *)
(***************************************************************************)
None == <<>>

Some(x) == <<x>>

Val(o) == o[1]

\* what the last call did: returned a value (None for a setter) or raised
Return(value) == [exc |-> "", val |-> value]

Raise(exception) == [exc |-> exception, val |-> None]

argc(b, s, d) == Cardinality({i \in 1..3 : <<b, s, d>>[i] # None})

(***************************************************************************)
(* IsometricPoint: stored fields _grid, _b, _s; d is derived.              *)
(***************************************************************************)
IsometricPoint(grid, b, s) == [_grid |-> grid, _b |-> b, _s |-> s]

Point_b(self) == self._b

Point_s(self) == self._s

\* d derived from the edge length instead of the altitude
Point_d_side_length(self) == side_length(self._grid) - self._b - self._s

Point_d(self) == altitude(self._grid) - self._b - self._s

Point_set_b(self, b) ==
    [self EXCEPT !._s = self._s - Half(b - self._b), !._b = b]

Point_set_s(self, s) ==
    [self EXCEPT !._b = self._b - Half(s - self._s), !._s = s]

Point_set_d(self, d) ==
    LET delta == Half(d - Point_d(self))
    IN  [self EXCEPT !._b = self._b - delta, !._s = self._s - delta]

Point_getitem(self, key) ==
    IF key = B THEN Point_b(self)
    ELSE IF key = S THEN Point_s(self)
    ELSE Point_d(self)

Point_setitem(self, key, item) ==
    IF key = B THEN Point_set_b(self, item)
    ELSE IF key = S THEN Point_set_s(self, item)
    ELSE Point_set_d(self, item)

\* move_to with argc(b, s, d) = 2; each assignment goes through the setter.
move_to(self, b, s, d) ==
    IF b = None
        THEN Point_set_s(Point_set_b(self, side_length(self._grid) - Val(s) - Val(d)), Val(s))
    ELSE IF s = None
        THEN LET p1 == Point_set_b(self, Val(b))
             IN  Point_set_s(p1, side_length(self._grid) - Val(b) - Val(d))
    ELSE Point_set_s(Point_set_b(self, Val(b)), Val(s))

center(grid) == IsometricPoint(grid, apothem(grid), apothem(grid))

at_coordinates(grid, b, s, d) == move_to(IsometricPoint(grid, 0, 0), b, s, d)

(***************************************************************************)
(* Lengths.  sqrt is irrational on most inputs, so a length x is held as   *)
(* its signed square x * |x| (in units of 1 / Unit^2): the map is a        *)
(* bijection on the reals that preserves order and zero, so two lengths    *)
(* are equal exactly when their representations are.                       *)
(***************************************************************************)
isometric_distance(component_axis_1, component_axis_2) ==
    component_axis_1 * component_axis_1 + component_axis_2 * component_axis_2
        - component_axis_1 * component_axis_2

\* the representation of scale_factor * x, given the representation of x
Scaled(scale_factor, len) == scale_factor * Abs(scale_factor) * len

(***************************************************************************)
(* IsometricVector: stored fields _b_component, _s_component,              *)
(* _cached_length, _length_dirty.                                          *)
(***************************************************************************)
IsometricVector(b_component, s_component) ==
    [_b_component |-> b_component, _s_component |-> s_component,
     _cached_length |-> None, _length_dirty |-> TRUE]

with_net_b_s(delta_b, delta_s) ==
    IsometricVector(delta_b - Half(delta_s), delta_s - Half(delta_b))

with_net_b_d(delta_b, delta_d) ==
    IsometricVector(delta_b - Half(delta_d), -Half(delta_b + delta_d))

with_net_s_d(delta_s, delta_d) ==
    IsometricVector(-Half(delta_s + delta_d), delta_s - Half(delta_d))

b_component(self) == self._b_component

s_component(self) == self._s_component

set_b_component(self, b) ==
    [self EXCEPT !._length_dirty = TRUE,
                 !._s_component = self._s_component - Half(b - self._b_component),
                 !._b_component = b]

set_s_component(self, s) ==
    [self EXCEPT !._length_dirty = TRUE,
                 !._b_component = self._b_component - Half(s - self._s_component),
                 !._s_component = s]

delta_b(self) == self._b_component - Half(self._s_component)

\* The class body first binds delta_s to the getter of lines 317-320
\* (self._s_component - 0.5 * self._b_component), then line 331 decorates
\* `def delta_s` with @delta_b.setter: property.setter returns a copy of the
\* delta_b property with the new fset, and that copy is what the name delta_s
\* is bound to from then on.  Reading v.delta_s therefore runs delta_b's getter.
delta_s(self) == delta_b(self)

delta_d(self) == -Half(self._b_component + self._s_component)

set_delta_b(self, x) ==
    set_b_component(self, b_component(self) + (x - delta_b(self)))

set_delta_s(self, x) ==
    set_s_component(self, s_component(self) + (x - delta_s(self)))

set_delta_d(self, x) ==
    LET delta_delta_b_s == Half(x - delta_d(self))
    IN  [self EXCEPT !._length_dirty = TRUE,
                     !._b_component = self._b_component - delta_delta_b_s,
                     !._s_component = self._s_component - delta_delta_b_s]

\* the length getter: the value it returns, and the vector it leaves behind
length(self) ==
    IF self._length_dirty
        THEN isometric_distance(self._b_component, self._s_component)
        ELSE Val(self._cached_length)

length_read(self) ==
    IF self._length_dirty
        THEN [self EXCEPT !._cached_length =
                              Some(isometric_distance(self._b_component, self._s_component)),
                          !._length_dirty = FALSE]
        ELSE self

\* the length setter, called with length = scale_factor * self.length while
\* self.length is not zero; both `*=` go through the component setters
set_length(self, scale_factor) ==
    LET v0 == length_read(self)
        v1 == set_b_component(v0, b_component(v0) * scale_factor)
        v2 == set_s_component(v1, s_component(v1) * scale_factor)
    IN  [v2 EXCEPT !._cached_length = Some(Scaled(scale_factor, length(self))),
                   !._length_dirty = FALSE]

Vector_getitem(self, key) ==
    IF key = B THEN delta_b(self)
    ELSE IF key = S THEN delta_s(self)
    ELSE delta_d(self)

Vector_setitem(self, key, item) ==
    IF key = B THEN set_delta_b(self, item)
    ELSE IF key = S THEN set_delta_s(self, item)
    ELSE set_delta_d(self, item)

Vector_add(self, other) ==
    IsometricVector(self._b_component + b_component(other),
                    self._s_component + s_component(other))

Vector_sub(self, other) ==
    IsometricVector(self._b_component - b_component(other),
                    self._s_component - s_component(other))

Vector_mul(self, scalar) ==
    IsometricVector(self._b_component * scalar, self._s_component * scalar)

Vector_truediv(self, scalar) ==
    IsometricVector(self._b_component \div scalar, self._s_component \div scalar)

(***************************************************************************)
(* Point arithmetic, projection and distance                               *)
(***************************************************************************)
Point_add(self, other) ==
    IsometricPoint(self._grid, Point_b(self) + delta_b(other), Point_s(self) + delta_s(other))

_sub_point(self, other) ==
    with_net_b_s(Point_b(self) - Point_b(other), Point_s(self) - Point_s(other))

_sub_vector(self, other) ==
    IsometricPoint(self._grid, Point_b(self) - delta_b(other), Point_s(self) - delta_s(other))

between_points(start, end) == _sub_point(end, start)

\* the projection without the shift along a shared edge labelled S
project_without_s_shift(self, adjacent_grid) ==
    IF adjacent_grid = self._grid
        THEN IsometricPoint(self._grid, Point_b(self), Point_s(self))
        ELSE
            LET altitude_mean == Half(altitude(adjacent_grid) + altitude(self._grid))
                old_border_edge == direction_away_from_face(self._grid, adjacent_grid)
                new_border_edge == direction_away_from_face(adjacent_grid, self._grid)
                local_complement_of_new_b ==
                    rotated_ccw_by_index(old_border_edge, new_border_edge)
                local_complement_of_new_s ==
                    rotated_cw_by_index(local_complement_of_new_b, 1)
                projected_point ==
                    IsometricPoint(
                        adjacent_grid,
                        altitude_mean - Point_getitem(self, local_complement_of_new_b),
                        altitude_mean - Point_getitem(self, local_complement_of_new_s))
            IN  IF new_border_edge = B
                    THEN [projected_point EXCEPT !._b = projected_point._b - altitude_mean]
                ELSE projected_point

project_onto_adjacent_grid(self, adjacent_grid) ==
    IF adjacent_grid = self._grid
        THEN IsometricPoint(self._grid, Point_b(self), Point_s(self))
        ELSE
            LET altitude_mean == Half(altitude(adjacent_grid) + altitude(self._grid))
                old_border_edge == direction_away_from_face(self._grid, adjacent_grid)
                new_border_edge == direction_away_from_face(adjacent_grid, self._grid)
                local_complement_of_new_b ==
                    rotated_ccw_by_index(old_border_edge, new_border_edge)
                local_complement_of_new_s ==
                    rotated_cw_by_index(local_complement_of_new_b, 1)
                projected_point ==
                    IsometricPoint(
                        adjacent_grid,
                        altitude_mean - Point_getitem(self, local_complement_of_new_b),
                        altitude_mean - Point_getitem(self, local_complement_of_new_s))
            IN  IF new_border_edge = B
                    THEN [projected_point EXCEPT !._b = projected_point._b - altitude_mean]
                ELSE IF new_border_edge = S
                    THEN [projected_point EXCEPT !._s = projected_point._s - altitude_mean]
                ELSE projected_point

\* the names bound at module level when distance_from runs
ModuleGlobals ==
    {"NotAdjacentException", "HashByIndex", "argc", "Enum", "sqrt", "Number", "Optional",
     "isometric_distance", "IsometricDirection", "IsometricGrid", "IsometricPoint",
     "IsometricVector"}

\* the method: it returns (does not raise) a NotImplementedError object
geodesic_distance_from(self, other) == Return(Some("NotImplementedError"))

same_face_distance(self, other) ==
    LET b_comp == Point_b(other) - Point_b(self)
        s_comp == Point_s(other) - Point_s(self)
    IN  isometric_distance(b_comp - Half(s_comp), s_comp - Half(b_comp))

\* the adjacent-face distance measured on self's grid, with other projected
distance_from_far_onto_near(self, other) ==
    IF self._grid = other._grid
        THEN Return(Some(same_face_distance(self, other)))
    ELSE IF is_adjacent_to_face(self._grid, other._grid)
        THEN Return(Some(same_face_distance(
                 self, project_onto_adjacent_grid(other, self._grid))))
    ELSE IF "geodesic_distance_from" \in ModuleGlobals
        THEN geodesic_distance_from(self, other)
    ELSE Raise("NameError")

RECURSIVE distance_from(_, _)
distance_from(self, other) ==
    IF self._grid = other._grid
        THEN Return(Some(same_face_distance(self, other)))
    ELSE IF is_adjacent_to_face(self._grid, other._grid)
        THEN distance_from(project_onto_adjacent_grid(self, other._grid), other)
    \* line 119 calls the bare name geodesic_distance_from, not the method
    ELSE IF "geodesic_distance_from" \in ModuleGlobals
        THEN geodesic_distance_from(self, other)
    ELSE Raise("NameError")

(***************************************************************************)
(* Inputs                                                                  *)
(***************************************************************************)
PointVals == {Unit, 3 * Unit}

OptVals == {None} \cup {Some(x) : x \in PointVals}

VecVals == {-Unit, 0, 2 * Unit}

Factors == {0, 1, 2}

GeomVals == {0, Unit, 4 * Unit}

PointsOn(grid) == {IsometricPoint(grid, b, s) : b \in GeomVals, s \in GeomVals}

NoOp == [name |-> "init", key |-> B, b |-> None, s |-> None, d |-> None]

(***************************************************************************)
(* The Point under mutation                                                *)
(***************************************************************************)
InitPoint ==
    /\ mesh \in { [grid |-> g, edge |-> [f \in Faces |-> B], adjacent |-> TRUE] :
                    g \in [Faces -> Grids] }
    /\ p = center("A")
    /\ q = p
    /\ v = IsometricVector(0, 0)
    /\ op = NoOp
    /\ old = p
    /\ ret = Return(None)
    /\ steps = 0

Center ==
    \E grid \in Faces :
        /\ steps < MaxSteps
        /\ p' = center(grid)
        /\ op' = [NoOp EXCEPT !.name = "center"]
        /\ old' = p
        /\ ret' = Return(None)
        /\ steps' = steps + 1
        /\ UNCHANGED <<mesh, q, v>>

AtCoordinates ==
    \E grid \in Faces, b \in OptVals, s \in OptVals, d \in OptVals :
        /\ steps < MaxSteps
        /\ IF argc(b, s, d) = 2
             THEN p' = at_coordinates(grid, b, s, d) /\ ret' = Return(None)
             ELSE p' = p /\ ret' = Raise("AssertionError")
        /\ op' = [name |-> "at_coordinates", key |-> B, b |-> b, s |-> s, d |-> d]
        /\ old' = p
        /\ steps' = steps + 1
        /\ UNCHANGED <<mesh, q, v>>

MoveTo ==
    \E b \in OptVals, s \in OptVals, d \in OptVals :
        /\ steps < MaxSteps
        /\ IF argc(b, s, d) = 2
             THEN p' = move_to(p, b, s, d) /\ ret' = Return(None)
             ELSE p' = p /\ ret' = Raise("AssertionError")
        /\ op' = [name |-> "move_to", key |-> B, b |-> b, s |-> s, d |-> d]
        /\ old' = p
        /\ steps' = steps + 1
        /\ UNCHANGED <<mesh, q, v>>

PointSetB ==
    \E x \in PointVals :
        /\ steps < MaxSteps
        /\ p' = Point_set_b(p, x)
        /\ op' = [NoOp EXCEPT !.name = "set", !.key = B, !.b = Some(x)]
        /\ old' = p
        /\ ret' = Return(None)
        /\ steps' = steps + 1
        /\ UNCHANGED <<mesh, q, v>>

PointSetS ==
    \E x \in PointVals :
        /\ steps < MaxSteps
        /\ p' = Point_set_s(p, x)
        /\ op' = [NoOp EXCEPT !.name = "set", !.key = S, !.b = Some(x)]
        /\ old' = p
        /\ ret' = Return(None)
        /\ steps' = steps + 1
        /\ UNCHANGED <<mesh, q, v>>

PointSetD ==
    \E x \in PointVals :
        /\ steps < MaxSteps
        /\ p' = Point_set_d(p, x)
        /\ op' = [NoOp EXCEPT !.name = "set", !.key = D, !.b = Some(x)]
        /\ old' = p
        /\ ret' = Return(None)
        /\ steps' = steps + 1
        /\ UNCHANGED <<mesh, q, v>>

PointSetItem ==
    \E key \in IsometricDirection, x \in PointVals :
        /\ steps < MaxSteps
        /\ p' = Point_setitem(p, key, x)
        /\ op' = [NoOp EXCEPT !.name = "setitem", !.key = key, !.b = Some(x)]
        /\ old' = p
        /\ ret' = Return(None)
        /\ steps' = steps + 1
        /\ UNCHANGED <<mesh, q, v>>

NextPoint ==
    \/ Center
    \/ AtCoordinates
    \/ MoveTo
    \/ PointSetB
    \/ PointSetS
    \/ PointSetD
    \/ PointSetItem

SpecPoint == InitPoint /\ [][NextPoint]_vars

(***************************************************************************)
(* The Vector under mutation                                               *)
(***************************************************************************)
InitVector ==
    /\ mesh = [grid |-> [f \in Faces |-> CHOOSE g \in Grids : g.apothem = Unit],
               edge |-> [f \in Faces |-> B], adjacent |-> TRUE]
    /\ p = center("A")
    /\ q = p
    /\ v \in {IsometricVector(b, s) : b \in VecVals, s \in VecVals}
    /\ op = NoOp
    /\ old = v
    /\ ret = Return(None)
    /\ steps = 0

VecStep(name, key, b, s, new, result) ==
    /\ steps < MaxSteps
    /\ v' = new
    /\ op' = [name |-> name, key |-> key, b |-> b, s |-> s, d |-> None]
    /\ old' = v
    /\ ret' = result
    /\ steps' = steps + 1
    /\ UNCHANGED <<mesh, p, q>>

NewVector ==
    \E b \in VecVals, s \in VecVals :
        VecStep("IsometricVector", B, Some(b), Some(s), IsometricVector(b, s), Return(None))

WithNetBS ==
    \E x \in VecVals, y \in VecVals :
        VecStep("with_net_b_s", B, Some(x), Some(y), with_net_b_s(x, y), Return(None))

WithNetBD ==
    \E x \in VecVals, y \in VecVals :
        VecStep("with_net_b_d", B, Some(x), Some(y), with_net_b_d(x, y), Return(None))

WithNetSD ==
    \E x \in VecVals, y \in VecVals :
        VecStep("with_net_s_d", B, Some(x), Some(y), with_net_s_d(x, y), Return(None))

VecAdd ==
    \E b \in VecVals, s \in VecVals :
        VecStep("add", B, Some(b), Some(s), Vector_add(v, IsometricVector(b, s)), Return(None))

VecSub ==
    \E b \in VecVals, s \in VecVals :
        VecStep("sub", B, Some(b), Some(s), Vector_sub(v, IsometricVector(b, s)), Return(None))

VecMul ==
    \E scalar \in Factors :
        VecStep("mul", B, Some(scalar), None, Vector_mul(v, scalar), Return(None))

VecTrueDiv ==
    \E scalar \in {0, 2} :
        IF scalar = 0
            THEN VecStep("truediv", B, Some(scalar), None, v, Raise("ZeroDivisionError"))
            ELSE VecStep("truediv", B, Some(scalar), None, Vector_truediv(v, scalar), Return(None))

SetBComponent ==
    \E x \in VecVals :
        VecStep("set_component", B, Some(x), None, set_b_component(v, x), Return(None))

SetSComponent ==
    \E x \in VecVals :
        VecStep("set_component", S, Some(x), None, set_s_component(v, x), Return(None))

SetDComponent ==
    \E x \in VecVals :
        VecStep("set_component", D, Some(x), None, v, Raise("NotImplementedError"))

SetDeltaB ==
    \E x \in VecVals :
        VecStep("set", B, Some(x), None, set_delta_b(v, x), Return(None))

SetDeltaS ==
    \E x \in VecVals :
        VecStep("set", S, Some(x), None, set_delta_s(v, x), Return(None))

SetDeltaD ==
    \E x \in VecVals :
        VecStep("set", D, Some(x), None, set_delta_d(v, x), Return(None))

VectorSetItem ==
    \E key \in IsometricDirection, x \in VecVals :
        VecStep("setitem", key, Some(x), None, Vector_setitem(v, key, x), Return(None))

ReadLength ==
    VecStep("length", B, None, None, length_read(v), Return(Some(length(v))))

\* v.length = scale_factor * v.length
SetLength ==
    \E scale_factor \in Factors :
        IF length(v) = 0
            THEN VecStep("set_length", B, Some(scale_factor), None,
                         length_read(v), Raise("ZeroDivisionError"))
            ELSE VecStep("set_length", B, Some(scale_factor), None,
                         set_length(v, scale_factor), Return(None))

NextVector ==
    \/ NewVector
    \/ WithNetBS
    \/ WithNetBD
    \/ WithNetSD
    \/ VecAdd
    \/ VecSub
    \/ VecMul
    \/ VecTrueDiv
    \/ SetBComponent
    \/ SetSComponent
    \/ SetDComponent
    \/ SetDeltaB
    \/ SetDeltaS
    \/ SetDeltaD
    \/ VectorSetItem
    \/ ReadLength
    \/ SetLength

SpecVector == InitVector /\ [][NextVector]_vars

(***************************************************************************)
(* Arithmetic, projection and distance applied to arbitrary Points         *)
(***************************************************************************)
InitGeom ==
    /\ mesh \in { [grid |-> g, edge |-> e, adjacent |-> a] :
                    g \in [Faces -> Grids], e \in [Faces -> IsometricDirection],
                    a \in BOOLEAN }
    /\ p = center("A")
    /\ q = p
    /\ v = IsometricVector(0, 0)
    /\ op = NoOp
    /\ old = p
    /\ ret = Return(None)
    /\ steps = 0

\* one application of a function to freshly drawn arguments
GeomStep(name, self, other, vector, result) ==
    /\ steps = 0
    /\ p' = self
    /\ q' = other
    /\ v' = vector
    /\ op' = [NoOp EXCEPT !.name = name]
    /\ ret' = result
    /\ steps' = 1
    /\ UNCHANGED <<mesh, old>>

\* start + between_points(start, end)
Reconstruct ==
    \E grid \in Faces :
        \E start \in PointsOn(grid), end \in PointsOn(grid) :
            GeomStep("reconstruct", start, end, between_points(start, end),
                     Return(Some(Point_add(start, between_points(start, end)))))

\* self - vector
SubVector ==
    \E grid \in Faces :
        \E self \in PointsOn(grid), b \in VecVals, s \in VecVals :
            GeomStep("sub_vector", self, self, IsometricVector(b, s),
                     Return(Some(_sub_vector(self, IsometricVector(b, s)))))

\* self.project_onto_adjacent_grid(adjacent_grid)
Project ==
    \E grid \in Faces, adjacent_grid \in Faces :
        \E self \in PointsOn(grid) :
            /\ adjacent_grid = grid \/ mesh.adjacent
            /\ GeomStep("project", self, project_onto_adjacent_grid(self, adjacent_grid), v,
                        Return(None))

\* self.project_onto_adjacent_grid(adjacent_grid).project_onto_adjacent_grid(self.grid)
ProjectThereAndBack ==
    \E grid \in Faces :
        \E self \in PointsOn(grid) :
            /\ mesh.adjacent
            /\ LET there == project_onto_adjacent_grid(self, OtherFace(grid))
               IN  GeomStep("there_and_back", self, there, v,
                            Return(Some(project_onto_adjacent_grid(there, grid))))

\* self.distance_from(other)
DistanceFrom ==
    \E grid \in Faces, other_grid \in Faces :
        \E self \in PointsOn(grid), other \in PointsOn(other_grid) :
            GeomStep("distance_from", self, other, v, distance_from(self, other))

NextGeom ==
    \/ Reconstruct
    \/ SubVector
    \/ Project
    \/ ProjectThereAndBack
    \/ DistanceFrom

SpecGeom == InitGeom /\ [][NextGeom]_vars

(***************************************************************************)
(* Properties                                                              *)
(***************************************************************************)
IsPoint(r) == "_grid" \in DOMAIN r

SameCoordinates(a, b) ==
    /\ Point_b(a) = Point_b(b)
    /\ Point_s(a) = Point_s(b)
    /\ Point_d(a) = Point_d(b)

\* C1: after construction and after every mutation of a Point, its three
\* readable coordinates sum to the altitude of its grid: b + s + d = altitude.
C1_PointInvariant ==
    Point_b(p) + Point_s(p) + Point_d(p) = altitude(p._grid)

\* C1 witness: a Point that was moved by a second mutation and is no longer
\* where it was.
C1_Witness ==
    /\ op.name \in {"set", "setitem", "move_to"}
    /\ ret.exc = ""
    /\ steps = MaxSteps
    /\ IsPoint(old)
    /\ p # old
    /\ p # center(p._grid)

\* C2: the three readable net deltas of every Vector sum to zero:
\* delta_b + delta_s + delta_d = 0.
C2_ZeroSum ==
    delta_b(v) + delta_s(v) + delta_d(v) = 0

\* C3: at_coordinates and move_to given exactly two of b, s, d leave the
\* Point with the supplied axes reading back the supplied values and the
\* omitted axis equal to the altitude minus their sum.
C3_TwoAxisPlacement ==
    (op.name \in {"at_coordinates", "move_to"} /\ ret.exc = "") =>
        /\ op.b # None => Point_b(p) = Val(op.b)
        /\ op.s # None => Point_s(p) = Val(op.s)
        /\ op.d # None => Point_d(p) = Val(op.d)
        /\ Point_b(p) + Point_s(p) + Point_d(p) = altitude(p._grid)

\* C4: on Point and on Vector, assigning x to axis X (by attribute or by
\* index) makes axis X read back x and changes each of the other two axes'
\* readable values by exactly -0.5 * (x - old X).
C4_AxisCoupling ==
    (op.name \in {"set", "setitem"} /\ ret.exc = "") =>
        LET x == Val(op.b)
            new(key) == IF IsPoint(old) THEN Point_getitem(p, key) ELSE Vector_getitem(v, key)
            was(key) == IF IsPoint(old) THEN Point_getitem(old, key) ELSE Vector_getitem(old, key)
        IN  /\ new(op.key) = x
            /\ \A key \in IsometricDirection \ {op.key} :
                   new(key) = was(key) - Half(x - was(op.key))

\* C5: for Points start and end on one Grid, start + between_points(start, end)
\* has the coordinates of end.
C5_Reconstruction ==
    op.name = "reconstruct" => SameCoordinates(Val(ret.val), q)

\* C6: projecting a Point onto an adjacent face and back yields a Point on the
\* original face with the original b, s and d, whatever the two altitudes and
\* the two labels of the shared edge.
C6_ThereAndBack ==
    op.name = "there_and_back" =>
        /\ Val(ret.val)._grid = p._grid
        /\ SameCoordinates(Val(ret.val), p)

\* C6 witness: a round trip between faces of different altitudes whose shared
\* edge carries different labels on the two faces, from a Point that the
\* projection actually moved.
C6_Witness ==
    /\ op.name = "there_and_back"
    /\ altitude("A") # altitude("B")
    /\ mesh.edge["A"] # mesh.edge["B"]
    /\ q._grid # p._grid
    /\ <<q._b, q._s>> # <<p._b, p._s>>

\* C7: after v.length = L on a Vector of non-zero length, both stored
\* components are their previous values multiplied by L / old length, and the
\* law-of-cosines length of the stored components is L.
C7_Rescale ==
    (op.name = "set_length" /\ ret.exc = "") =>
        LET scale_factor == Val(op.b)
        IN  /\ v._b_component = scale_factor * old._b_component
            /\ v._s_component = scale_factor * old._s_component
            /\ isometric_distance(v._b_component, v._s_component)
                   = Scaled(scale_factor, length(old))

\* C8: distance_from between Points on different, non-adjacent Grids fails by
\* raising NotImplementedError; it returns nothing and raises nothing else.
C8_NonAdjacentNotImplemented ==
    (/\ op.name = "distance_from"
     /\ p._grid # q._grid
     /\ ~is_adjacent_to_face(p._grid, q._grid)) =>
        ret = Raise("NotImplementedError")

\* C9: for p on face A and q on an adjacent face B, p.distance_from(q) is the
\* same-face distance on A between p and q projected onto A.
C9_FarOntoNear ==
    (/\ op.name = "distance_from"
     /\ p._grid # q._grid
     /\ is_adjacent_to_face(p._grid, q._grid)) =>
        ret = Return(Some(same_face_distance(p, project_onto_adjacent_grid(q, p._grid))))

\* C9 as amended: for p on face A and q on an adjacent face B,
\* p.distance_from(q) is the same-face distance on B between p projected onto
\* B and q.
C9_NearOntoFar ==
    (/\ op.name = "distance_from"
     /\ p._grid # q._grid
     /\ is_adjacent_to_face(p._grid, q._grid)) =>
        ret = Return(Some(same_face_distance(project_onto_adjacent_grid(p, q._grid), q)))

\* C9 witness: a distance across the shared edge of two faces of different
\* altitudes on which the two directions of projection disagree.
C9_Witness ==
    /\ op.name = "distance_from"
    /\ p._grid # q._grid
    /\ is_adjacent_to_face(p._grid, q._grid)
    /\ altitude("A") # altitude("B")
    /\ same_face_distance(project_onto_adjacent_grid(p, q._grid), q)
           # same_face_distance(p, project_onto_adjacent_grid(q, p._grid))

\* C10: whenever the length cache of a Vector is marked clean, the cached
\* length is the law-of-cosines length of the currently stored components.
C10_CacheFresh ==
    ~v._length_dirty =>
        Val(v._cached_length) = isometric_distance(v._b_component, v._s_component)

====
